---- MODULE Spec2Model ----
(***************************************************************************)
(* Model of app/config.py and app/prompts/prompts.py.                      *)
(*                                                                         *)
(* app/config.py is executed top to bottom when it is first imported: it   *)
(* binds three module-level names from os.getenv.  app/prompts/prompts.py  *)
(* binds PROMPTS to a dict literal.  Strings are modelled as sequences of  *)
(* one-character strings so that str.split and int() are computed, not     *)
(* assumed.                                                                *)
(***************************************************************************)
EXTENDS Integers, Sequences, FiniteSets, TLC

VARIABLES environ, loadEnv, pc, bound,
          OPENAI_REALTIME_MODEL, OPENAI_REALTIME_MODALITIES,
          OPENAI_REALTIME_SESSION_TTL_SEC,
          imported, PROMPTS, result, returned

vars == <<environ, loadEnv, pc, bound,
          OPENAI_REALTIME_MODEL, OPENAI_REALTIME_MODALITIES,
          OPENAI_REALTIME_SESSION_TTL_SEC,
          imported, PROMPTS, result, returned>>

configVars == <<pc, bound, OPENAI_REALTIME_MODEL, OPENAI_REALTIME_MODALITIES,
                OPENAI_REALTIME_SESSION_TTL_SEC, imported, loadEnv>>

(***************************************************************************)
(* Bounds on the enumerated environment strings.                           *)
(***************************************************************************)
MaxTtlLen == 3
MaxModLen == 3
\* successful lookups remembered per key
MaxRecorded == 2

(***************************************************************************)
(* Names of the environment variables read by config.py.                   *)
(***************************************************************************)
ModelVar == "OPENAI_REALTIME_MODEL"
ModalitiesVar == "OPENAI_REALTIME_MODALITIES"
TtlVar == "OPENAI_REALTIME_SESSION_TTL_SEC"
EnvNames == {ModelVar, ModalitiesVar, TtlVar}

(***************************************************************************)
(* The default arguments of the three os.getenv calls, as strings.         *)
(***************************************************************************)
DefaultModel == <<"g", "p", "t", "-", "r", "e", "a", "l", "t", "i", "m", "e">>
DefaultModalities == <<"t", "e", "x", "t">>
DefaultTtl == <<"6", "0">>

(***************************************************************************)
(* An environment variable is either absent or holds a string.             *)
(***************************************************************************)
Unset == [present |-> FALSE, val |-> <<>>]
Present(s) == [present |-> TRUE, val |-> s]

getenv_ignoreDefault(env, name, default) == env[name].val

\* os.getenv(name, default) against the environment env
getenv(env, name, default) ==
    IF env[name].present THEN env[name].val ELSE default

(***************************************************************************)
(* str.split(","): cut at every comma, keep every piece, empty ones too.   *)
(***************************************************************************)
Comma == ","

\* index of the first comma at or after position i, or 0 when there is none
RECURSIVE FindComma(_, _)
FindComma(s, i) ==
    IF i > Len(s) THEN 0
    ELSE IF s[i] = Comma THEN i
    ELSE FindComma(s, i + 1)

RECURSIVE split_dropEmpty(_)
split_dropEmpty(s) ==
    LET j == FindComma(s, 1) IN
    IF j = 0 THEN (IF s = <<>> THEN <<>> ELSE <<s>>)
    ELSE (IF j = 1 THEN <<>> ELSE <<SubSeq(s, 1, j - 1)>>)
             \o split_dropEmpty(SubSeq(s, j + 1, Len(s)))

RECURSIVE split(_)
split(s) ==
    LET j == FindComma(s, 1) IN
    IF j = 0 THEN <<s>>
    ELSE <<SubSeq(s, 1, j - 1)>> \o split(SubSeq(s, j + 1, Len(s)))

(***************************************************************************)
(* int(s) for a str argument, base 10: leading whitespace, an optional     *)
(* sign, digits with single underscores between them, trailing whitespace, *)
(* and then the end of the string; anything else raises ValueError.        *)
(***************************************************************************)
Digits == {"0", "1", "2", "3", "4", "5", "6", "7", "8", "9"}
Whitespace == {" "}

DigitVal(c) ==
    CASE c = "0" -> 0 [] c = "1" -> 1 [] c = "2" -> 2 [] c = "3" -> 3
      [] c = "4" -> 4 [] c = "5" -> 5 [] c = "6" -> 6 [] c = "7" -> 7
      [] c = "8" -> 8 [] c = "9" -> 9

\* first position at or after i that does not hold whitespace
RECURSIVE SkipSpaces(_, _)
SkipSpaces(s, i) ==
    IF i <= Len(s) /\ s[i] \in Whitespace THEN SkipSpaces(s, i + 1) ELSE i

\* scan digits and underscores from position i; prev is the previous
\* character scanned ("" at the start), acc the value so far, n the number
\* of digits seen
RECURSIVE ScanDigits(_, _, _, _, _)
ScanDigits(s, i, prev, acc, n) ==
    IF i <= Len(s) /\ s[i] \in Digits
      THEN ScanDigits(s, i + 1, s[i], acc * 10 + DigitVal(s[i]), n + 1)
    ELSE IF i <= Len(s) /\ s[i] = "_"
      THEN IF prev \in Digits
             THEN ScanDigits(s, i + 1, "_", acc, n)
             ELSE [ok |-> FALSE, end |-> i, val |-> 0]
    ELSE [ok |-> n > 0 /\ prev # "_", end |-> i, val |-> acc]

ValueError == [ok |-> FALSE, val |-> 0]

int_fallback(s) ==
    LET i == SkipSpaces(s, 1)
        neg == i <= Len(s) /\ s[i] = "-"
        j == IF i <= Len(s) /\ s[i] \in {"+", "-"} THEN i + 1 ELSE i
        d == ScanDigits(s, j, "", 0, 0)
        k == SkipSpaces(s, d.end)
    IN IF d.ok /\ k > Len(s)
         THEN [ok |-> TRUE, val |-> IF neg THEN 0 - d.val ELSE d.val]
         ELSE [ok |-> TRUE, val |-> 60]

int(s) ==
    LET i == SkipSpaces(s, 1)
        neg == i <= Len(s) /\ s[i] = "-"
        j == IF i <= Len(s) /\ s[i] \in {"+", "-"} THEN i + 1 ELSE i
        d == ScanDigits(s, j, "", 0, 0)
        k == SkipSpaces(s, d.end)
    IN IF d.ok /\ k > Len(s)
         THEN [ok |-> TRUE, val |-> IF neg THEN 0 - d.val ELSE d.val]
         ELSE ValueError

(***************************************************************************)
(* The PROMPTS dict literal: its items in source order.  A prompt body is  *)
(* represented by its opening words, its length in characters, and whether *)
(* it contains the transcription header line.                              *)
(***************************************************************************)
Body(first, chars, header) ==
    [first |-> first, chars |-> chars, header |-> header]

NoBody == Body("", 0, FALSE)

PromptItems_withDefault ==
    << <<"paraphrase-gpt-realtime-enhanced",
         Body("Role: You are a realtime speech transcription post-processor",
              2501, TRUE)>>,
       <<"readability-enhance",
         Body("Improve the readability of the user input text.", 1129, FALSE)>>,
       <<"ask-ai",
         Body("You're an AI assistant skilled in persuasion", 931, FALSE)>>,
       <<"correctness-check",
         Body("Analyze the following text for factual accuracy.", 584, FALSE)>>,
       <<"default",
         Body("Improve the readability of the user input text.", 1129, FALSE)>> >>

PromptItems ==
    << <<"paraphrase-gpt-realtime-enhanced",
         Body("Role: You are a realtime speech transcription post-processor",
              2501, TRUE)>>,
       <<"readability-enhance",
         Body("Improve the readability of the user input text.", 1129, FALSE)>>,
       <<"ask-ai",
         Body("You're an AI assistant skilled in persuasion", 931, FALSE)>>,
       <<"correctness-check",
         Body("Analyze the following text for factual accuracy.", 584, FALSE)>> >>

\* evaluation of a dict display: items are inserted left to right, a later
\* item with an equal key replaces the earlier one
RECURSIVE dict(_)
dict(items) ==
    IF items = <<>> THEN <<>>
    ELSE LET n == Len(items)
             d == dict(SubSeq(items, 1, n - 1))
             k == items[n][1]
         IN [x \in (DOMAIN d) \cup {k} |-> IF x = k THEN items[n][2] ELSE d[x]]

PromptsLiteral == dict(PromptItems)

(***************************************************************************)
(* Lookup keys tried by consumers: the four registered keys and near       *)
(* misses (other case, trailing blank, unrelated).                         *)
(***************************************************************************)
LookupKeys ==
    {"paraphrase-gpt-realtime-enhanced", "readability-enhance", "ask-ai",
     "correctness-check", "Ask-AI", "ask-ai ", "nonexistent-key"}

getitem_fallback(d, key) ==
    IF key \in DOMAIN d
      THEN [status |-> "ok", body |-> d[key]]
      ELSE [status |-> "ok", body |-> d["readability-enhance"]]

\* PROMPTS[key]: the body bound to exactly this key, else KeyError
getitem(d, key) ==
    IF key \in DOMAIN d
      THEN [status |-> "ok", body |-> d[key]]
      ELSE [status |-> "KeyError", body |-> NoBody]

(***************************************************************************)
(* Environment strings enumerated by the specifications.                   *)
(***************************************************************************)
TtlChars == {"1", "0", "-", "+", " ", "_", "a"}
ModChars == {"t", "a", ",", " "}

StringsOver(chars, n) == UNION {[1..m -> chars] : m \in 0..n}

TtlExamples == {<<"a", "b", "c">>, <<"1", "2", "0">>}
ModExamples == {<<"t", "e", "x", "t", ",", "a", "u", "d", "i", "o">>,
                <<"t", "e", "x", "t", ",", "t", "e", "x", "t">>}

TtlStrings == StringsOver(TtlChars, MaxTtlLen) \cup TtlExamples
ModStrings == StringsOver(ModChars, MaxModLen) \cup ModExamples

\* the small sets the full process model draws environment values from
ModelInputs == {<<"m">>}
ModInputs == {<<"a", ",", "t">>}
TtlInputs == {<<"5">>, <<"x">>}

EnvInputs(name) ==
    CASE name = ModelVar -> ModelInputs
      [] name = ModalitiesVar -> ModInputs
      [] name = TtlVar -> TtlInputs

Names == {"OPENAI_REALTIME_MODEL", "OPENAI_REALTIME_MODALITIES",
          "OPENAI_REALTIME_SESSION_TTL_SEC"}

(***************************************************************************)
(* Initial states: nothing of app.config has run; app.prompts.prompts has  *)
(* been imported, so PROMPTS holds the value of its dict display.          *)
(***************************************************************************)
InitProcess ==
    /\ loadEnv = [n \in EnvNames |-> Unset]
    /\ pc = "unloaded"
    /\ bound = {}
    /\ OPENAI_REALTIME_MODEL = <<>>
    /\ OPENAI_REALTIME_MODALITIES = <<>>
    /\ OPENAI_REALTIME_SESSION_TTL_SEC = 0
    /\ imported = FALSE
    /\ PROMPTS = PromptsLiteral
    /\ result = [op |-> "none", status |-> "none", key |-> "",
                 body |-> NoBody]
    /\ returned = [k \in DOMAIN PromptsLiteral |-> <<>>]

Init ==
    /\ environ = [n \in EnvNames |-> Unset]
    /\ InitProcess

(***************************************************************************)
(* import app.config                                                       *)
(***************************************************************************)
\* first import (or a new attempt after a failed one): the module body
\* starts executing in a fresh namespace
ImportStart ==
    /\ pc \in {"unloaded", "failed"}
    /\ pc' = "line4"
    /\ loadEnv' = environ
    /\ bound' = {}
    /\ UNCHANGED <<environ, OPENAI_REALTIME_MODEL, OPENAI_REALTIME_MODALITIES,
                   OPENAI_REALTIME_SESSION_TTL_SEC, imported, PROMPTS,
                   result, returned>>

Line4_expose ==
    /\ pc = "line4"
    /\ OPENAI_REALTIME_MODEL' = getenv(environ, ModelVar, DefaultModel)
    /\ bound' = bound \cup {"OPENAI_REALTIME_MODEL"}
    /\ pc' = "line7"
    /\ imported' = TRUE
    /\ UNCHANGED <<environ, loadEnv, OPENAI_REALTIME_MODALITIES,
                   OPENAI_REALTIME_SESSION_TTL_SEC, PROMPTS,
                   result, returned>>

\* OPENAI_REALTIME_MODEL = os.getenv("OPENAI_REALTIME_MODEL", "gpt-realtime")
Line4 ==
    /\ pc = "line4"
    /\ OPENAI_REALTIME_MODEL' = getenv(environ, ModelVar, DefaultModel)
    /\ bound' = bound \cup {"OPENAI_REALTIME_MODEL"}
    /\ pc' = "line7"
    /\ UNCHANGED <<environ, loadEnv, OPENAI_REALTIME_MODALITIES,
                   OPENAI_REALTIME_SESSION_TTL_SEC, imported, PROMPTS,
                   result, returned>>

\* OPENAI_REALTIME_MODALITIES = os.getenv(..., "text").split(",")
Line7 ==
    /\ pc = "line7"
    /\ OPENAI_REALTIME_MODALITIES' =
           split(getenv(environ, ModalitiesVar, DefaultModalities))
    /\ bound' = bound \cup {"OPENAI_REALTIME_MODALITIES"}
    /\ pc' = "line10"
    /\ UNCHANGED <<environ, loadEnv, OPENAI_REALTIME_MODEL,
                   OPENAI_REALTIME_SESSION_TTL_SEC, imported, PROMPTS,
                   result, returned>>

\* OPENAI_REALTIME_SESSION_TTL_SEC = int(os.getenv(..., "60")); when int
\* raises, the import statement raises and the half-built module is dropped;
\* otherwise the module body is complete and the importer gets the module
Line10 ==
    /\ pc = "line10"
    /\ LET r == int(getenv(environ, TtlVar, DefaultTtl)) IN
       IF r.ok
         THEN /\ OPENAI_REALTIME_SESSION_TTL_SEC' = r.val
              /\ bound' = bound \cup {"OPENAI_REALTIME_SESSION_TTL_SEC"}
              /\ pc' = "loaded"
              /\ imported' = TRUE
              /\ result' = [op |-> "import", status |-> "ok",
                  key |-> "", body |-> NoBody]
              /\ UNCHANGED <<OPENAI_REALTIME_MODEL, OPENAI_REALTIME_MODALITIES>>
         ELSE /\ OPENAI_REALTIME_SESSION_TTL_SEC' = 0
              /\ OPENAI_REALTIME_MODEL' = <<>>
              /\ OPENAI_REALTIME_MODALITIES' = <<>>
              /\ bound' = {}
              /\ pc' = "failed"
              /\ imported' = FALSE
              /\ result' = [op |-> "import", status |-> "ValueError",
                            key |-> "", body |-> NoBody]
    /\ UNCHANGED <<environ, loadEnv, PROMPTS, returned>>

ImportCached_reload ==
    /\ pc = "loaded"
    /\ int(getenv(environ, TtlVar, DefaultTtl)).ok
    /\ OPENAI_REALTIME_MODEL' = getenv(environ, ModelVar, DefaultModel)
    /\ OPENAI_REALTIME_MODALITIES' =
           split(getenv(environ, ModalitiesVar, DefaultModalities))
    /\ OPENAI_REALTIME_SESSION_TTL_SEC' =
           int(getenv(environ, TtlVar, DefaultTtl)).val
    /\ loadEnv' = environ
    /\ result' = [op |-> "import", status |-> "ok",
                  key |-> "", body |-> NoBody]
    /\ UNCHANGED <<environ, pc, bound, imported, PROMPTS, returned>>

\* a later import of the already loaded module: the cached module is
\* returned and its body is not executed again
ImportCached ==
    /\ pc = "loaded"
    /\ result' = [op |-> "import", status |-> "ok",
                  key |-> "", body |-> NoBody]
    /\ UNCHANGED <<environ, loadEnv, pc, bound, OPENAI_REALTIME_MODEL,
                   OPENAI_REALTIME_MODALITIES, OPENAI_REALTIME_SESSION_TTL_SEC,
                   imported, PROMPTS, returned>>

\* a caller that holds the module reads one of its names
ReadConfig(n) ==
    /\ imported
    /\ result' = [op |-> "read",
                  status |-> IF n \in bound THEN "ok" ELSE "AttributeError",
                  key |-> n, body |-> NoBody]
    /\ UNCHANGED <<environ, loadEnv, pc, bound, OPENAI_REALTIME_MODEL,
                   OPENAI_REALTIME_MODALITIES, OPENAI_REALTIME_SESSION_TTL_SEC,
                   imported, PROMPTS, returned>>

(***************************************************************************)
(* The process environment changes between imports.                        *)
(***************************************************************************)
SetEnv(name, s) ==
    /\ pc \in {"unloaded", "loaded", "failed"}
    /\ environ[name] # Present(s)
    /\ environ' = [environ EXCEPT ![name] = Present(s)]
    /\ UNCHANGED <<loadEnv, pc, bound, OPENAI_REALTIME_MODEL,
                   OPENAI_REALTIME_MODALITIES, OPENAI_REALTIME_SESSION_TTL_SEC,
                   imported, PROMPTS, result, returned>>

UnsetEnv(name) ==
    /\ pc \in {"unloaded", "loaded", "failed"}
    /\ environ[name].present
    /\ environ' = [environ EXCEPT ![name] = Unset]
    /\ UNCHANGED <<loadEnv, pc, bound, OPENAI_REALTIME_MODEL,
                   OPENAI_REALTIME_MODALITIES, OPENAI_REALTIME_SESSION_TTL_SEC,
                   imported, PROMPTS, result, returned>>

(***************************************************************************)
(* PROMPTS[key]                                                            *)
(***************************************************************************)
Lookup_pop(key) ==
    /\ pc \in {"unloaded", "loaded", "failed"}
    /\ LET r == getitem(PROMPTS, key) IN
       /\ result' = [op |-> "lookup", status |-> r.status, key |-> key,
                     body |-> r.body]
       /\ returned' = IF /\ r.status = "ok"
                           /\ key \in DOMAIN returned
                           /\ Len(returned[key]) < MaxRecorded
                        THEN [returned EXCEPT ![key] = Append(@, r.body)]
                        ELSE returned
       /\ PROMPTS' = [x \in (DOMAIN PROMPTS) \ {key} |-> PROMPTS[x]]
    /\ UNCHANGED <<environ, configVars>>

Lookup(key) ==
    /\ pc \in {"unloaded", "loaded", "failed"}
    /\ LET r == getitem(PROMPTS, key) IN
       /\ result' = [op |-> "lookup", status |-> r.status, key |-> key,
                     body |-> r.body]
       /\ returned' = IF /\ r.status = "ok"
                           /\ key \in DOMAIN returned
                           /\ Len(returned[key]) < MaxRecorded
                        THEN [returned EXCEPT ![key] = Append(@, r.body)]
                        ELSE returned
    /\ UNCHANGED <<environ, PROMPTS, configVars>>

Next ==
    \/ ImportStart
    \/ Line4
    \/ Line7
    \/ Line10
    \/ ImportCached
    \/ \E n \in Names : ReadConfig(n)
    \/ \E name \in EnvNames : \E s \in EnvInputs(name) : SetEnv(name, s)
    \/ \E name \in EnvNames : UnsetEnv(name)
    \/ \E key \in LookupKeys : Lookup(key)

Spec == Init /\ [][Next]_vars

(***************************************************************************)
(* Specifications that enumerate one environment string exhaustively and   *)
(* then import the module.                                                 *)
(***************************************************************************)
\* the environment in which the three variables hold a, b and c
Environment(a, b, c) ==
    [n \in EnvNames |-> CASE n = ModelVar -> a
                           [] n = ModalitiesVar -> b
                           [] n = TtlVar -> c]

InitTtl ==
    /\ \E a \in {Unset} \cup {Present(t) : t \in ModelInputs} :
       \E b \in {Unset} \cup {Present(t) : t \in ModInputs} :
       \E c \in {Unset} \cup {Present(t) : t \in TtlStrings} :
           environ = Environment(a, b, c)
    /\ InitProcess

InitModalities ==
    /\ \E a \in {Unset} \cup {Present(t) : t \in ModelInputs} :
       \E b \in {Unset} \cup {Present(t) : t \in ModStrings} :
       \E c \in {Unset} \cup {Present(t) : t \in TtlInputs} :
           environ = Environment(a, b, c)
    /\ InitProcess

NextLoad ==
    \/ ImportStart
    \/ Line4
    \/ Line7
    \/ Line10
    \/ ImportCached
    \/ \E n \in Names : ReadConfig(n)

SpecTtl == InitTtl /\ [][NextLoad]_vars

SpecModalities == InitModalities /\ [][NextLoad]_vars

(***************************************************************************)
(* PROMPTS is a plain dict: a consumer holding it can also assign and      *)
(* delete items.                                                           *)
(***************************************************************************)
ConsumerKeys == {"ask-ai", "my-profile"}
ConsumerBodies == {Body("Answer briefly.", 15, FALSE)}

\* PROMPTS[key] = body
setitem(key, body) ==
    /\ PROMPTS' = [x \in (DOMAIN PROMPTS) \cup {key} |->
                      IF x = key THEN body ELSE PROMPTS[x]]
    /\ result' = [op |-> "setitem", status |-> "ok", key |-> key,
                  body |-> NoBody]
    /\ UNCHANGED <<environ, returned, configVars>>

\* del PROMPTS[key]
delitem(key) ==
    /\ IF key \in DOMAIN PROMPTS
         THEN /\ PROMPTS' = [x \in (DOMAIN PROMPTS) \ {key} |-> PROMPTS[x]]
              /\ result' = [op |-> "delitem", status |-> "ok", key |-> key,
                              body |-> NoBody]
         ELSE /\ PROMPTS' = PROMPTS
              /\ result' = [op |-> "delitem", status |-> "KeyError", key |-> key,
                              body |-> NoBody]
    /\ UNCHANGED <<environ, returned, configVars>>

NextConsumer ==
    \/ \E key \in LookupKeys : Lookup(key)
    \/ \E key \in ConsumerKeys : \E body \in ConsumerBodies : setitem(key, body)
    \/ \E key \in LookupKeys : delitem(key)

SpecMut == Init /\ [][NextConsumer]_vars

(***************************************************************************)
(* Properties.                                                             *)
(***************************************************************************)
AllUnset(env) == \A n \in EnvNames : ~env[n].present

\* C1: a variable that is unset when the module is loaded resolves to its
\* default ("gpt-realtime", ["text"], 60) whatever the other two hold, and a
\* load never fails unless the TTL variable is present; with all three
\* unset the load succeeds with exactly the three defaults.
C1_DefaultsWhenUnset ==
    /\ pc = "failed" => loadEnv[TtlVar].present
    /\ pc = "loaded" =>
         /\ ~loadEnv[ModelVar].present =>
                OPENAI_REALTIME_MODEL =
                    <<"g", "p", "t", "-", "r", "e", "a", "l", "t", "i", "m", "e">>
         /\ ~loadEnv[ModalitiesVar].present =>
                OPENAI_REALTIME_MODALITIES = << <<"t", "e", "x", "t">> >>
         /\ ~loadEnv[TtlVar].present => OPENAI_REALTIME_SESSION_TTL_SEC = 60

C1_Witness ==
    /\ pc = "loaded"
    /\ AllUnset(loadEnv)
    /\ result = [op |-> "import", status |-> "ok", key |-> "", body |-> NoBody]
    /\ bound = Names

(***************************************************************************)
(* Decimal integer strings, stated without reference to the scanner:       *)
(* blanks, an optional sign, then digits in which a single underscore may  *)
(* stand between two digits, then blanks.                                  *)
(***************************************************************************)
IsIntegerString(s) ==
    \E a \in 1..Len(s) : \E b \in a..Len(s) :
        /\ \A i \in 1..(a - 1) : s[i] \in Whitespace
        /\ \A i \in (b + 1)..Len(s) : s[i] \in Whitespace
        /\ LET f == IF s[a] \in {"+", "-"} THEN a + 1 ELSE a IN
           /\ f <= b
           /\ s[f] \in Digits
           /\ s[b] \in Digits
           /\ \A i \in f..b :
                 \/ s[i] \in Digits
                 \/ s[i] = "_" /\ s[i - 1] \in Digits /\ s[i + 1] \in Digits

IsDigit(c) == c \in Digits

RECURSIVE DecimalValue(_)
DecimalValue(ds) ==
    IF ds = <<>> THEN 0
    ELSE DecimalValue(SubSeq(ds, 1, Len(ds) - 1)) * 10 + DigitVal(ds[Len(ds)])

IntegerValue(s) ==
    LET v == DecimalValue(SelectSeq(s, IsDigit)) IN
    IF \E i \in 1..Len(s) : s[i] = "-" THEN 0 - v ELSE v

\* C2: when the TTL variable is present, the load fails with ValueError and
\* binds no TTL (in particular not 60) if the value is not a decimal integer
\* string such as "abc", and succeeds with session_ttl_seconds equal to the
\* integer the string denotes otherwise ("120" gives 120).
C2_TtlParseOrFail ==
    (loadEnv[TtlVar].present /\ pc \in {"loaded", "failed"}) =>
        LET s == loadEnv[TtlVar].val IN
        /\ ~IsIntegerString(s) =>
              /\ pc = "failed"
              /\ result = [op |-> "import", status |-> "ValueError",
                          key |-> "", body |-> NoBody]
              /\ "OPENAI_REALTIME_SESSION_TTL_SEC" \notin bound
              /\ ~imported
        /\ IsIntegerString(s) =>
              /\ pc = "loaded"
              /\ OPENAI_REALTIME_SESSION_TTL_SEC = IntegerValue(s)
        /\ s = <<"a", "b", "c">> => pc = "failed"
        /\ s = <<"1", "2", "0">> => OPENAI_REALTIME_SESSION_TTL_SEC = 120

C2_Witness ==
    /\ pc = "failed"
    /\ loadEnv[TtlVar] = Present(<<"a", "b", "c">>)
    /\ result.status = "ValueError"

(***************************************************************************)
(* Helpers for statements about the comma split.                           *)
(***************************************************************************)
CountCommas(s) == Cardinality({i \in 1..Len(s) : s[i] = ","})

RECURSIVE JoinComma(_)
JoinComma(m) ==
    IF Len(m) = 1 THEN m[1]
    ELSE JoinComma(SubSeq(m, 1, Len(m) - 1)) \o <<",">> \o m[Len(m)]

\* C3: when the modalities variable is present with value s, modalities has
\* (number of commas in s) + 1 elements, none of which contains a comma,
\* and joining them with "," gives back s: nothing is trimmed, deduplicated
\* or dropped; "text,audio" gives ["text", "audio"] and "text,text" gives
\* ["text", "text"].
C3_SplitOnComma ==
    (loadEnv[ModalitiesVar].present /\ "OPENAI_REALTIME_MODALITIES" \in bound) =>
        LET s == loadEnv[ModalitiesVar].val
            m == OPENAI_REALTIME_MODALITIES
        IN /\ Len(m) = CountCommas(s) + 1
           /\ \A i \in 1..Len(m) : CountCommas(m[i]) = 0
           /\ JoinComma(m) = s
           /\ s = <<"t", "e", "x", "t", ",", "a", "u", "d", "i", "o">> =>
                  m = << <<"t", "e", "x", "t">>, <<"a", "u", "d", "i", "o">> >>
           /\ s = <<"t", "e", "x", "t", ",", "t", "e", "x", "t">> =>
                  m = << <<"t", "e", "x", "t">>, <<"t", "e", "x", "t">> >>

C3_Witness ==
    /\ pc = "loaded"
    /\ loadEnv[ModalitiesVar] = Present(<<" ", ",", ",">>)
    /\ OPENAI_REALTIME_MODALITIES = << <<" ">>, <<>>, <<>> >>

RegisteredKeys ==
    {"paraphrase-gpt-realtime-enhanced", "readability-enhance", "ask-ai",
     "correctness-check"}

\* C4: a lookup succeeds exactly when its key is, character for character,
\* one of the four registered keys; any other key (other case, trailing
\* blank, unknown) ends in KeyError and hands back no prompt
\* body, and a successful lookup hands back the body registered under the
\* key.
C4_ExactKeyOrKeyError ==
    result.op = "lookup" =>
        /\ result.key \in RegisteredKeys <=> result.status = "ok"
        /\ result.key \notin RegisteredKeys =>
              /\ result.status = "KeyError"
              /\ \A k \in DOMAIN PromptsLiteral : result.body # PromptsLiteral[k]
        /\ result.key \in RegisteredKeys => result.body = PromptsLiteral[result.key]

C4_Witness ==
    /\ result = [op |-> "lookup", status |-> "KeyError", key |-> "Ask-AI",
                 body |-> NoBody]
    /\ Len(returned["ask-ai"]) > 0

\* C5: in every state the key set of PROMPTS is exactly the four profile
\* keys, and the dict display lists four items with pairwise distinct keys.
C5_KeySetExact ==
    /\ DOMAIN PROMPTS = RegisteredKeys
    /\ Cardinality(DOMAIN PROMPTS) = 4
    /\ Len(PromptItems) = 4
    /\ \A i, j \in 1..Len(PromptItems) :
           i # j => PromptItems[i][1] # PromptItems[j][1]

C5_Witness ==
    /\ pc = "loaded"
    /\ result.op = "lookup"
    /\ \A k \in RegisteredKeys : Len(returned[k]) > 0

\* C6: whatever a consumer does with the PROMPTS object, the mapping from
\* key to body stays the one defined at module load.
C6_RegistryReadOnly == PROMPTS = PromptsLiteral

\* C7: every body a lookup of a registered key has returned is the body
\* defined for that key at module load, so any two lookups of the key agree
\* whatever lookups happened in between; and a lookup step changes neither
\* PROMPTS nor the configuration nor the environment.
C7_LookupPure ==
    /\ [](\A k \in DOMAIN returned : \A i \in 1..Len(returned[k]) :
              returned[k][i] = PromptsLiteral[k])
    /\ [][(/\ result'.op = "lookup"
            /\ <<result, returned>>' # <<result, returned>>)
            => /\ PROMPTS' = PROMPTS
               /\ UNCHANGED <<environ, configVars>>
               /\ result'.status = "ok" =>
                      result'.body = PromptsLiteral[result'.key]]_vars

C7_Witness ==
    /\ Len(returned["ask-ai"]) = 2
    /\ Len(returned["correctness-check"]) > 0
    /\ result.op = "lookup" /\ result.status = "ok" /\ result.key = "ask-ai"
    /\ result.body = returned["ask-ai"][1]

\* C8: once the module is loaded, no step (an environment change, a read,
\* a lookup, another import) changes model_id, modalities or
\* session_ttl_seconds, and the module stays loaded.
C8_ResolvedOnce ==
    [][pc = "loaded" =>
          /\ pc' = "loaded"
          /\ bound' = bound
          /\ OPENAI_REALTIME_MODEL' = OPENAI_REALTIME_MODEL
          /\ OPENAI_REALTIME_MODALITIES' = OPENAI_REALTIME_MODALITIES
          /\ OPENAI_REALTIME_SESSION_TTL_SEC' = OPENAI_REALTIME_SESSION_TTL_SEC]_vars

C8_Witness ==
    /\ pc = "loaded"
    /\ result = [op |-> "read", status |-> "ok",
                 key |-> "OPENAI_REALTIME_SESSION_TTL_SEC", body |-> NoBody]
    /\ ~loadEnv[TtlVar].present
    /\ environ[TtlVar] = Present(<<"5">>)
    /\ environ[ModelVar] # loadEnv[ModelVar]
    /\ environ[ModalitiesVar] # loadEnv[ModalitiesVar]
    /\ OPENAI_REALTIME_SESSION_TTL_SEC = 60

\* C9: after a successful load session_ttl_seconds is at least 1.
C9_TtlPositive ==
    pc = "loaded" => OPENAI_REALTIME_SESSION_TTL_SEC >= 1

\* C10: a caller holds the module only when all three names are bound; a
\* namespace with only some of them bound exists only while the module body
\* runs, when no caller holds the module; after a failed load no caller
\* holds it and nothing is bound; and no read ever finds a name missing.
C10_NeverPartial ==
    /\ imported => (bound = Names /\ pc = "loaded")
    /\ bound \notin {{}, Names} => (~imported /\ pc \in {"line7", "line10"})
    /\ pc = "failed" => (~imported /\ bound = {})
    /\ result.op = "read" => result.status = "ok"

C10_Witness ==
    /\ pc = "failed"
    /\ result = [op |-> "import", status |-> "ValueError",
                          key |-> "", body |-> NoBody]
    /\ loadEnv[TtlVar] = Present(<<"x">>)
    /\ loadEnv[ModelVar].present
    /\ ~imported

====
